---- MODULE Spec2Model ----
(***************************************************************************)
(* The ReSTIR GI temporal-reuse compute pass of dxvk-remix                 *)
(* (src/dxvk/shaders/rtx/pass/rtxdi/restir_gi_temporal_reuse.comp.slang):  *)
(* one unit of work per dispatched thread, all units of a frame running    *)
(* interleaved, communicating only through the reservoir store.            *)
(*                                                                         *)
(* Conventions.  Screen positions (float2 in the shader) are kept on a     *)
(* half-pixel grid: the centre of pixel <<x, y>> is <<2x+1, 2y+1>>, so     *)
(* one pixel is 2 units.  Weights in [0, 1] are numerators     *)
(* over WeightDen, random numbers in [0, 1) are numerators over RandomRes. *)
(* avgWeight is an exact rational <<n, d>> in lowest terms.  World-space   *)
(* vectors are symbolic terms: a loaded value, teleported through a        *)
(* portal or not, extrapolated to a virtual sample or not.                 *)
(***************************************************************************)
EXTENDS Integers, Sequences, FiniteSets, TLC

VARIABLES
  frameIdx,   \* cb.frameIdx of the frame being (or last) dispatched
  cb,         \* the per-frame constant block
  inp,        \* the per-pixel input buffers of the frame (GBuffer, radiance, ...)
  store,      \* the reservoir store: page -> pixel slot -> reservoir
  debugView,  \* the debug view image: pixel -> value
  pc,         \* each thread's position in main
  loc,        \* each thread's local variables
  writes,     \* history: the store slots <<page, pixel>> each thread wrote this frame
  reads,      \* history: the store slots <<page, pixel>> each thread read this frame
  store0,     \* history: the store as it was when the frame was dispatched
  probe       \* the resampler applied to stand-alone inputs (SpecResampler only)

vars == <<frameIdx, cb, inp, store, debugView, pc, loc, writes, reads, store0, probe>>

---------------------------------------------------------------------------
(* Bounds of the model *)

MaxFrames == 2          \* frames dispatched in one behaviour
MaxHistoryLength == 2   \* largest cb.temporalHistoryLength of the pass-level runs
RandomRes == 12         \* resolution of a random number in [0, 1)
WeightDen == 20         \* resolution of a weight in [0, 1]
ProbeMaxM == 9          \* largest M handed to the stand-alone resampler
ProbeMaxWeight == 2     \* largest avgWeight handed to the stand-alone resampler

(* Program constants *)

fireflyFilteringFactor == 30

RESTIR_GI_INVALID_INDIRECT_LIGHT_PORTAL_ID == 255

---------------------------------------------------------------------------
(* Arithmetic helpers *)

Abs(x) == IF x < 0 THEN -x ELSE x

Min(a, b) == IF a < b THEN a ELSE b

Max(a, b) == IF a > b THEN a ELSE b

RECURSIVE GCD(_, _)
GCD(a, b) == IF b = 0 THEN a ELSE GCD(b, a % b)

\* a rational n/d (d > 0, n >= 0) in lowest terms
Rat(n, d) == LET g == GCD(n, d) IN IF n = 0 THEN <<0, 1>> ELSE <<n \div g, d \div g>>

RECURSIVE ISqrtFrom(_, _)
ISqrtFrom(n, r) == IF (r + 1) * (r + 1) > n THEN r ELSE ISqrtFrom(n, r + 1)

\* length(v) of a float2, exact for the axis-aligned vectors the inputs produce
Length(v) == ISqrtFrom(v[1] * v[1] + v[2] * v[2], 0)

LengthSq(v) == v[1] * v[1] + v[2] * v[2]

\* thread_id + 0.5
PixelCenter(p) == <<2 * p[1] + 1, 2 * p[2] + 1>>

\* int2(floor(position))
PixelOf(c) == <<c[1] \div 2, c[2] \div 2>>

\* the float2 value -1
MinusOne == <<-2, -2>>

GridPixels(size) == (0 .. size[1] - 1) \X (0 .. size[2] - 1)

InResolution(p, res) == p[1] >= 0 /\ p[2] >= 0 /\ p[1] < res[1] /\ p[2] < res[2]

VSub(a, b) == <<a[1] - b[1], a[2] - b[2]>>

\* a + (b - a) * (n / d), rounded down to the grid
Lerp(a, b, n, d) ==
  <<a[1] + ((b[1] - a[1]) * n) \div d, a[2] + ((b[2] - a[2]) * n) \div d>>

---------------------------------------------------------------------------
(* Values *)

NoPortal == -1

\* a world-space vector as loaded from a buffer: not teleported, not extrapolated
Vec(base) == [base |-> base, portal |-> NoPortal, virtual |-> FALSE]

\* a store slot nothing was written to: an invalid reservoir, M = 0
EmptyReservoir ==
  [position |-> Vec("none"), normal |-> Vec("none"), radiance |-> 0, M |-> 0,
   avgWeight |-> <<0, 1>>, occluded |-> FALSE, virtualFraction |-> 0,
   portalID |-> RESTIR_GI_INVALID_INDIRECT_LIGHT_PORTAL_ID]

BIAS_CORRECTION_OFF == "off"
BIAS_CORRECTION_BASIC == "basic"
BIAS_CORRECTION_PAIRWISE == "pairwise"
RTXDI_BIAS_CORRECTION_PAIRWISE_RAY_TRACED == "pairwise_ray_traced"

DEBUG_VIEW_DISABLED == "disabled"
DEBUG_VIEW_RESTIR_GI_INITIAL_SAMPLE == "restir_gi_initial_sample"
DEBUG_VIEW_RESTIR_GI_TEMPORAL_REUSE == "restir_gi_temporal_reuse"
DEBUG_VIEW_NAN == "nan"

---------------------------------------------------------------------------
(* The store's pages *)

ReSTIRGI_GetInitSamplePage == 2

ReSTIRGI_GetTemporalInputPage(frame) == (frame + 1) % 2

ReSTIRGI_GetTemporalOutputPage(frame) == frame % 2

Pages == {0, 1, 2}

---------------------------------------------------------------------------
(* Candidate Builder: main, lines 61-114 *)

\* NaN, Inf and negative values (kept as -1 in the input) become the default
sanitize(value, default) == IF value < 0 THEN default ELSE value

\* luminance above the limit is brought down to it
fireflyFiltering(radiance, limit) == IF radiance > limit THEN limit ELSE radiance

getOpposingRayPortalIndex(portalID) == IF portalID % 2 = 0 THEN portalID + 1 ELSE portalID - 1

rayPortalHitInfoIsActive(rayPortalHitInfo) == rayPortalHitInfo.active

\* lines 66-83: the reservoir's constants, the radiance load and the firefly filter
LoadRadiance(c, in) ==
  LET raw == IF in.primarySelectedIntegrationSurface THEN sanitize(in.radiance, 0) ELSE 0
  IN  [M |-> 1, avgWeight |-> <<1, 1>>, occluded |-> FALSE, virtualFraction |-> 0,
       radiance |-> fireflyFiltering(raw, c.fireflyFilteringLuminanceThreshold * fireflyFilteringFactor)]

\* lines 85-87: ReSTIRGI_LoadHitGeometry and setPortalID
LoadHitGeometry(s, in) ==
  [position |-> Vec(in.hitPosition), normal |-> Vec(in.hitNormal), radiance |-> s.radiance,
   M |-> s.M, avgWeight |-> s.avgWeight, occluded |-> s.occluded,
   virtualFraction |-> s.virtualFraction, portalID |-> in.portalID]

\* the hit point is teleported whether or not the opposing portal is active
PortalTransform_IgnoresActive(s, c) ==
  IF s.portalID # RESTIR_GI_INVALID_INDIRECT_LIGHT_PORTAL_ID
  THEN LET opposing == getOpposingRayPortalIndex(s.portalID)
       IN  [s EXCEPT !.position.portal = opposing, !.normal.portal = opposing]
  ELSE s

\* lines 89-99: the hit point is teleported when the indirect ray crossed a portal
\* whose opposing portal is active
PortalTransform(s, c) ==
  IF s.portalID # RESTIR_GI_INVALID_INDIRECT_LIGHT_PORTAL_ID
  THEN LET opposing == getOpposingRayPortalIndex(s.portalID)
       IN  IF rayPortalHitInfoIsActive(c.rayPortalHitInfos[opposing])
           THEN [s EXCEPT !.position.portal = opposing, !.normal.portal = opposing]
           ELSE s
  ELSE s

\* lines 101-114: position and normal of a virtual sample
VirtualSample(s, c, in) ==
  LET indirectPathLengthExceeds ==
        in.primarySelectedIntegrationSurface /\ in.pathLengthExceeds
  IN  IF c.enableReSTIRGIVirtualSample /\ in.roughnessAboveDelta
         /\ in.directionNonZero /\ indirectPathLengthExceeds
      THEN [s EXCEPT !.virtualFraction = 1, !.position.virtual = TRUE,
                     !.normal = [base |-> "minus_direction", portal |-> s.position.portal,
                                 virtual |-> TRUE]]
      ELSE s

CandidateBuilder(c, in) ==
  VirtualSample(PortalTransform(LoadHitGeometry(LoadRadiance(c, in), in), c), c, in)

---------------------------------------------------------------------------
(* Random Sampler *)

\* the stream's state is a function of the pixel, the frame and the stream offset only
RAB_InitRandomSampler(pixel, frame, offset) ==
  (3 * pixel[1] + 5 * pixel[2] + 7 * frame + offset) % RandomRes

\* the number drawn, a numerator over RandomRes
RAB_GetNextRandom(rng) == rng

\* the stream's state after a draw
RngAdvance(rng) == (5 * rng + 1) % RandomRes

---------------------------------------------------------------------------
(* Reprojector: main, lines 119-194 *)

\* line 119
InitRng(t, frame) == RAB_InitRandomSampler(t, frame, 2)

\* lines 135-146: specularWeight * roughWeight, 0 when reflection reprojection is off
ReflectionWeight(c, in) ==
  IF c.enableReSTIRGIReflectionReprojection THEN in.reflectionWeight ELSE 0

\* the reflection weight is not compared against 0.05
ReflectionBranch_NoWeightTest(t, c, in) ==
  /\ c.enableReSTIRGIReflectionReprojection
  /\ LengthSq(VSub(in.prevPixelCenter, PixelCenter(t))) > 2 * 2

\* line 153: reflection is strong enough (> 0.05) and the diffuse reprojection moved
\* the pixel by more than one pixel
ReflectionBranch(t, c, in) ==
  /\ c.enableReSTIRGIReflectionReprojection
  /\ ReflectionWeight(c, in) * 20 > WeightDen
  /\ LengthSq(VSub(in.prevPixelCenter, PixelCenter(t))) > 2 * 2

\* lines 148-194
Reprojector(t, c, in, frame) ==
  LET rng == InitRng(t, frame)
      diffuse == in.prevPixelCenter
      reflectionWeight == ReflectionWeight(c, in)
      prevReflectionCenter == in.prevReflectionCenter
      interpolateDistance == c.restirGIReflectionMinParallax
      reprojectionDistance == Length(VSub(prevReflectionCenter, diffuse))
      interpolate ==
        LengthSq(VSub(prevReflectionCenter, diffuse)) < interpolateDistance * interpolateDistance
      picked == RAB_GetNextRandom(rng) * WeightDen < reflectionWeight * RandomRes
  IN  IF ~ReflectionBranch(t, c, in)
      THEN [rng |-> rng, prevPixelCenter |-> diffuse, prevBackupPixelCenter |-> MinusOne,
            depthThreshold |-> "strict",
            discardEnlargedPixels |-> c.enableReSTIRGIDiscardEnlargedPixels,
            reflectionReprojectionWeight |-> <<0, 1>>]
      ELSE IF interpolate
      THEN \* distanceWeight = saturate(reprojectionDistance / interpolateDistance)
           [rng |-> rng,
            prevPixelCenter |-> Lerp(diffuse, prevReflectionCenter,
                                     reflectionWeight * reprojectionDistance,
                                     WeightDen * interpolateDistance),
            prevBackupPixelCenter |-> diffuse,
            depthThreshold |-> "strict",
            discardEnlargedPixels |-> c.enableReSTIRGIDiscardEnlargedPixels,
            reflectionReprojectionWeight |->
              Rat(reflectionWeight * reprojectionDistance, WeightDen * interpolateDistance)]
      ELSE IF picked
      THEN [rng |-> RngAdvance(rng), prevPixelCenter |-> prevReflectionCenter,
            prevBackupPixelCenter |-> diffuse,
            depthThreshold |-> "relaxed",
            discardEnlargedPixels |-> FALSE,
            reflectionReprojectionWeight |-> Rat(reflectionWeight, WeightDen)]
      ELSE [rng |-> RngAdvance(rng), prevPixelCenter |-> diffuse,
            prevBackupPixelCenter |-> diffuse,
            depthThreshold |-> "strict",
            discardEnlargedPixels |-> c.enableReSTIRGIDiscardEnlargedPixels,
            reflectionReprojectionWeight |-> Rat(reflectionWeight, WeightDen)]

\* the source page is the page this frame's units write
SourceBufferIndex_OutputPage(frame) == ReSTIRGI_GetTemporalOutputPage(frame)

\* line 212
SourceBufferIndex(frame) == ReSTIRGI_GetTemporalInputPage(frame)

\* the history length is passed one too large
TemporalHistoryLength_OffByOne(c) == c.temporalHistoryLength + 1

\* line 197
TemporalHistoryLength(c) == c.temporalHistoryLength

\* the relaxed depth threshold of line 191 is passed whatever was selected
DepthThreshold_AlwaysRelaxed(r) == "relaxed"

\* line 205
DepthThreshold(r) == r.depthThreshold

\* lines 196-212
TemporalResamplingParameters(c, r, frame) ==
  [temporalHistoryLength |-> TemporalHistoryLength(c),
   enableJacobian |-> c.enableReSTIRGITemporalJacobian,
   enableBiasCorrection |-> c.enableReSTIRGITemporalBiasCorrection,
   prevPixelCenter |-> r.prevPixelCenter,
   prevBackupPixelCenter |-> r.prevBackupPixelCenter,
   resolution |-> c.resolution,
   depthThreshold |-> DepthThreshold(r),
   uniformRandomNumber |-> c.uniformRandomNumber,
   enablePermutationSampling |-> c.enableReSTIRGIPermutationSampling,
   permutationSamplingSize |-> c.permutationSamplingSize,
   discardEnlargedPixels |-> r.discardEnlargedPixels,
   sourceBufferIndex |-> SourceBufferIndex(frame)]

---------------------------------------------------------------------------
(* Resampler: ReSTIRGI_TemporalResampling, called at line 216 *)

NoPixel == <<-1, -1>>

\* the depth / normal similarity test of the current surface against the surface
\* at previous-frame pixel q; the relaxed depth threshold accepts more
IsGBufferSimilar(in, q, depthThreshold) ==
  \/ q \in in.similarTo
  \/ depthThreshold = "relaxed" /\ q \in in.similarUnderRelaxedDepth

\* bounds, validity and similarity of one reprojected position
Acceptable(in, tparams, page, q) ==
  /\ InResolution(q, tparams.resolution)
  /\ page[q].M > 0
  /\ IsGBufferSimilar(in, q, tparams.depthThreshold)

\* the positions tried in order: the primary one, then the backup when there is one
ReprojectedPositions(tparams) ==
  IF tparams.prevBackupPixelCenter # MinusOne
  THEN <<tparams.prevPixelCenter, tparams.prevBackupPixelCenter>>
  ELSE <<tparams.prevPixelCenter>>

\* the small pseudo-random offset of permutation sampling
PermutationOffset(pixel, tparams) ==
  IF (pixel[1] + pixel[2] + tparams.uniformRandomNumber) % 2 = 0
  THEN <<tparams.permutationSamplingSize, 0>>
  ELSE <<-tparams.permutationSamplingSize, 0>>

\* the previous-frame pixel whose reservoir is merged, NoPixel when every position
\* tried is rejected
TemporalPixel(pixel, in, tparams, page) ==
  LET tried == ReprojectedPositions(tparams)
      ok == {i \in 1 .. Len(tried) : Acceptable(in, tparams, page, PixelOf(tried[i]))}
  IN  IF ok = {} THEN NoPixel
      ELSE LET q == PixelOf(tried[CHOOSE i \in ok : \A j \in ok : i <= j])
               off == PermutationOffset(pixel, tparams)
               permuted == <<q[1] + off[1], q[2] + off[2]>>
           IN  IF tparams.enablePermutationSampling
                  /\ Acceptable(in, tparams, page, permuted)
               THEN permuted ELSE q

\* the slots of the source page the resampler loads
ExaminedPixels(pixel, in, tparams, page) ==
  LET tried == ReprojectedPositions(tparams)
      off == PermutationOffset(pixel, tparams)
      direct == {PixelOf(tried[i]) : i \in 1 .. Len(tried)}
      permuted == IF tparams.enablePermutationSampling
                  THEN {<<q[1] + off[1], q[2] + off[2]>> : q \in direct} ELSE {}
  IN  {q \in direct \cup permuted : InResolution(q, tparams.resolution)}

\* the bias-correction mode the merge weights follow
BiasCorrectionMode(c, tparams) ==
  IF tparams.enableBiasCorrection THEN c.reSTIRGIBiasCorrectionMode ELSE BIAS_CORRECTION_OFF

\* the candidate counts by its M alone
CandidateWeight_IgnoresAvgWeight(cand) == <<cand.M, 1>>

\* a reservoir's merge weight avgWeight * M as a rational, times the factors the
\* mode and the Jacobian correction put on the previous reservoir
CandidateWeight(cand) == <<cand.avgWeight[1] * cand.M, cand.avgWeight[2]>>

PreviousWeight(prev, mode, enableJacobian, jacobian, pairwise) ==
  LET j == IF enableJacobian THEN jacobian ELSE <<1, 1>>
      p == IF mode = BIAS_CORRECTION_OFF THEN <<1, 1>> ELSE pairwise
      v == IF mode = RTXDI_BIAS_CORRECTION_PAIRWISE_RAY_TRACED /\ prev.occluded THEN 0 ELSE 1
  IN  <<prev.avgWeight[1] * prev.M * j[1] * p[1] * v, prev.avgWeight[2] * j[2] * p[2]>>

\* the previous sample is kept when the random number falls below its share
SelectsPrevious(wc, wp, u) ==
  u * (wc[1] * wp[2] + wp[1] * wc[2]) < wp[1] * wc[2] * RandomRes

MergedM(cand, prev, temporalHistoryLength) == Min(cand.M + prev.M, temporalHistoryLength)

\* weighted-reservoir merge of the candidate with the previous reservoir
CombineReservoirs(cand, prev, temporalHistoryLength, mode, enableJacobian, jacobian, pairwise, u) ==
  LET wc == CandidateWeight(cand)
      wp == PreviousWeight(prev, mode, enableJacobian, jacobian, pairwise)
      keepPrevious == SelectsPrevious(wc, wp, u)
      chosen == IF keepPrevious THEN prev ELSE cand
  IN  IF wp[1] = 0
      THEN [reservoir |-> cand, isInitialSample |-> TRUE]
      ELSE [reservoir |->
              [chosen EXCEPT !.M = MergedM(cand, prev, temporalHistoryLength),
                             !.avgWeight = Rat(wc[1] * wp[2] + wp[1] * wc[2],
                                               wc[2] * wp[2] * (cand.M + prev.M))],
            isInitialSample |-> ~keepPrevious]

ReSTIRGI_TemporalResampling(initialSample, pixel, c, in, rng, tparams, page) ==
  LET q == TemporalPixel(pixel, in, tparams, page)
  IN  IF q = NoPixel
      THEN [reservoir |-> initialSample, isGBufferSimilar |-> FALSE,
            isInitialSample |-> TRUE, rng |-> rng]
      ELSE LET m == CombineReservoirs(initialSample, page[q], tparams.temporalHistoryLength,
                                      BiasCorrectionMode(c, tparams), tparams.enableJacobian,
                                      in.jacobian, in.pairwiseFactor, RAB_GetNextRandom(rng))
           IN  [reservoir |-> m.reservoir, isGBufferSimilar |-> TRUE,
                isInitialSample |-> m.isInitialSample, rng |-> RngAdvance(rng)]

---------------------------------------------------------------------------
(* Visibility Revalidator and output policy: main, lines 218-231 *)

\* the isInitialSample test is missing
RevalidationRuns_NoInitialTest(c, isGBufferSimilar, isInitialSample) ==
  /\ c.reSTIRGIBiasCorrectionMode = RTXDI_BIAS_CORRECTION_PAIRWISE_RAY_TRACED
  /\ isGBufferSimilar

\* lines 219-220
RevalidationRuns(c, isGBufferSimilar, isInitialSample) ==
  /\ c.reSTIRGIBiasCorrectionMode = RTXDI_BIAS_CORRECTION_PAIRWISE_RAY_TRACED
  /\ isGBufferSimilar
  /\ ~isInitialSample

\* lines 218-225: clearFlag, then setFlag(isVisible ? 0 : RESTIR_GI_FLAG_OCCLUDED_SAMPLE)
VisibilityRevalidation(c, in, resultReservoir, isGBufferSimilar, isInitialSample) ==
  IF RevalidationRuns(c, isGBufferSimilar, isInitialSample)
  THEN LET cleared == [resultReservoir EXCEPT !.occluded = FALSE]
       IN  [cleared EXCEPT !.occluded = cleared.occluded \/ ~in.isVisible]
  ELSE resultReservoir

\* the merged reservoir is written whatever enableReSTIRGITemporalReuse says
OutputReservoir_AlwaysMerged(c, resultReservoir, initialSample) == resultReservoir

\* lines 227-230
OutputReservoir(c, resultReservoir, initialSample) ==
  IF ~c.enableReSTIRGITemporalReuse THEN initialSample ELSE resultReservoir

\* lines 233-247: the value the debug view gets, given the one it holds
DebugValue(c, old, initialSample, isGBufferSimilar, reflectionReprojectionWeight) ==
  IF c.debugView = DEBUG_VIEW_RESTIR_GI_INITIAL_SAMPLE
  THEN <<"radiance", initialSample.radiance, 1>>
  ELSE IF c.debugView = DEBUG_VIEW_RESTIR_GI_TEMPORAL_REUSE
  THEN IF isGBufferSimilar
       THEN <<"red_to_green", reflectionReprojectionWeight[1], reflectionReprojectionWeight[2]>>
       ELSE <<"black", 0, 1>>
  ELSE IF c.debugView = DEBUG_VIEW_NAN
  THEN IF old[1] = "invalid" THEN old ELSE <<"valid", 0, 1>>
  ELSE old

---------------------------------------------------------------------------
(* State machine.  D bounds a specification's inputs: D.grid the dispatched   *)
(* grid, D.frames the frames dispatched, D.cbs the constant blocks, D.inputs  *)
(* the per-pixel inputs, D.concurrent whether every pixel of the resolution   *)
(* has a valid surface candidate (else one pixel per frame, among D.focus),   *)
(* D.stores the stores the first frame may find.                              *)

IdleLocals ==
  [initialSample |-> EmptyReservoir, rng |-> 0,
   prevPixelCenter |-> MinusOne, prevBackupPixelCenter |-> MinusOne,
   depthThreshold |-> "strict", discardEnlargedPixels |-> FALSE,
   reflectionReprojectionWeight |-> <<0, 1>>,
   resampled |-> EmptyReservoir, resultReservoir |-> EmptyReservoir,
   isGBufferSimilar |-> FALSE, isInitialSample |-> FALSE]

\* the inputs of a pixel whose GBuffer surface is invalid
InvalidSurfaceInput ==
  [surfaceValid |-> FALSE, primarySelectedIntegrationSurface |-> FALSE, radiance |-> 0,
   pathLengthExceeds |-> FALSE, hitPosition |-> "h0", hitNormal |-> "n0",
   portalID |-> RESTIR_GI_INVALID_INDIRECT_LIGHT_PORTAL_ID,
   roughnessAboveDelta |-> FALSE, directionNonZero |-> FALSE,
   prevPixelCenter |-> <<1, 1>>, reflectionWeight |-> 0, prevReflectionCenter |-> <<1, 1>>,
   similarTo |-> {}, similarUnderRelaxedDepth |-> {},
   jacobian |-> <<1, 1>>, pairwiseFactor |-> <<1, 1>>, isVisible |-> TRUE]

Threads == DOMAIN pc

AllDone == \A t \in Threads : pc[t] = "done"

NoProbe == [done |-> FALSE]

\* the frame loop, between frames: the next frame's constants and input buffers are
\* set and one thread per grid pixel is dispatched
Dispatch(D) ==
  /\ AllDone
  /\ frameIdx < D.frames
  /\ frameIdx < MaxFrames
  /\ frameIdx' = frameIdx + 1
  /\ \E c \in D.cbs :
       /\ cb' = c
       /\ LET inRes == {t \in Threads : InResolution(t, c.resolution)}
          IN  IF D.concurrent
              THEN \E f \in [inRes -> D.inputs] :
                     inp' = [t \in Threads |-> IF t \in inRes THEN f[t] ELSE InvalidSurfaceInput]
              ELSE \E focus \in inRes \cap D.focus, in \in D.inputs :
                     inp' = [t \in Threads |-> IF t = focus THEN in ELSE InvalidSurfaceInput]
  /\ pc' = [t \in Threads |-> "start"]
  /\ loc' = [t \in Threads |-> IdleLocals]
  /\ writes' = [t \in Threads |-> {}]
  /\ reads' = [t \in Threads |-> {}]
  /\ store0' = store
  /\ UNCHANGED <<store, debugView, probe>>

\* the surface's validity is not looked at
EarlyExit_NoSurfaceCheck(t, c, in) ==
  t[1] >= c.resolution[1] \/ t[2] >= c.resolution[2]

\* lines 48-58: the thread is outside the resolution, or its surface is invalid
EarlyExit(t, c, in) ==
  \/ t[1] >= c.resolution[1] \/ t[2] >= c.resolution[2]
  \/ ~in.surfaceValid

\* lines 46-114: the early exits, then the Candidate Builder
Enter(t) ==
  /\ pc[t] = "start"
  /\ IF EarlyExit(t, cb, inp[t])
     THEN /\ pc' = [pc EXCEPT ![t] = "done"]
          /\ UNCHANGED loc
     ELSE /\ pc' = [pc EXCEPT ![t] = "store_initial"]
          /\ loc' = [loc EXCEPT ![t].initialSample = CandidateBuilder(cb, inp[t])]
  /\ UNCHANGED <<frameIdx, cb, inp, store, debugView, writes, reads, store0, probe>>

\* the reservoir is scattered to the reprojected pixel instead of the thread's own
StoreSlot_Reprojected(t) == PixelOf(inp[t].prevPixelCenter)

\* lines 117 and 231: the pixel handed to RAB_StoreGIReservoir is thread_id
StoreSlot(t) == t

RAB_StoreGIReservoir(st, reservoir, pixel, page) ==
  IF pixel \in DOMAIN st[page] THEN [st EXCEPT ![page][pixel] = reservoir] ELSE st

\* lines 116-117
StoreInitialSample(t) ==
  /\ pc[t] = "store_initial"
  /\ store' = RAB_StoreGIReservoir(store, loc[t].initialSample, StoreSlot(t),
                                   ReSTIRGI_GetInitSamplePage)
  /\ writes' = [writes EXCEPT ![t] = @ \cup {<<ReSTIRGI_GetInitSamplePage, StoreSlot(t)>>}]
  /\ pc' = [pc EXCEPT ![t] = "reproject"]
  /\ UNCHANGED <<frameIdx, cb, inp, debugView, loc, reads, store0, probe>>

\* lines 119-194
Reproject(t) ==
  /\ pc[t] = "reproject"
  /\ LET r == Reprojector(t, cb, inp[t], frameIdx)
     IN  loc' = [loc EXCEPT ![t].rng = r.rng,
                            ![t].prevPixelCenter = r.prevPixelCenter,
                            ![t].prevBackupPixelCenter = r.prevBackupPixelCenter,
                            ![t].depthThreshold = r.depthThreshold,
                            ![t].discardEnlargedPixels = r.discardEnlargedPixels,
                            ![t].reflectionReprojectionWeight = r.reflectionReprojectionWeight]
  /\ pc' = [pc EXCEPT ![t] = "resample"]
  /\ UNCHANGED <<frameIdx, cb, inp, store, debugView, writes, reads, store0, probe>>

\* lines 196-216
TemporalResampling(t) ==
  /\ pc[t] = "resample"
  /\ LET tparams == TemporalResamplingParameters(cb, loc[t], frameIdx)
         page == store[tparams.sourceBufferIndex]
         res == ReSTIRGI_TemporalResampling(loc[t].initialSample, t, cb, inp[t],
                                            loc[t].rng, tparams, page)
     IN  /\ loc' = [loc EXCEPT ![t].resampled = res.reservoir,
                               ![t].resultReservoir = res.reservoir,
                               ![t].isGBufferSimilar = res.isGBufferSimilar,
                               ![t].isInitialSample = res.isInitialSample,
                               ![t].rng = res.rng]
         /\ reads' = [reads EXCEPT ![t] = @ \cup
                        {<<tparams.sourceBufferIndex, q>> :
                           q \in ExaminedPixels(t, inp[t], tparams, page)}]
  /\ pc' = [pc EXCEPT ![t] = "revalidate"]
  /\ UNCHANGED <<frameIdx, cb, inp, store, debugView, writes, store0, probe>>

\* lines 218-225
Revalidate(t) ==
  /\ pc[t] = "revalidate"
  /\ loc' = [loc EXCEPT ![t].resultReservoir =
               VisibilityRevalidation(cb, inp[t], loc[t].resultReservoir,
                                      loc[t].isGBufferSimilar, loc[t].isInitialSample)]
  /\ pc' = [pc EXCEPT ![t] = "store_output"]
  /\ UNCHANGED <<frameIdx, cb, inp, store, debugView, writes, reads, store0, probe>>

\* lines 227-231
StoreOutput(t) ==
  /\ pc[t] = "store_output"
  /\ store' = RAB_StoreGIReservoir(store,
                 OutputReservoir(cb, loc[t].resultReservoir, loc[t].initialSample),
                 StoreSlot(t), ReSTIRGI_GetTemporalOutputPage(frameIdx))
  /\ writes' = [writes EXCEPT ![t] = @ \cup
                  {<<ReSTIRGI_GetTemporalOutputPage(frameIdx), StoreSlot(t)>>}]
  /\ pc' = [pc EXCEPT ![t] = "debug"]
  /\ UNCHANGED <<frameIdx, cb, inp, debugView, loc, reads, store0, probe>>

\* lines 233-248
DebugView(t) ==
  /\ pc[t] = "debug"
  /\ debugView' = [debugView EXCEPT ![t] =
                     DebugValue(cb, @, loc[t].initialSample, loc[t].isGBufferSimilar,
                                loc[t].reflectionReprojectionWeight)]
  /\ pc' = [pc EXCEPT ![t] = "done"]
  /\ loc' = [loc EXCEPT ![t] = IdleLocals]
  /\ UNCHANGED <<frameIdx, cb, inp, store, writes, reads, store0, probe>>

---------------------------------------------------------------------------
(* Input domains *)

\* a constant block with every optional feature off
BaseCb ==
  [resolution |-> <<2, 1>>, fireflyFilteringLuminanceThreshold |-> 1,
   rayPortalHitInfos |-> [i \in 0 .. 1 |-> [active |-> FALSE]],
   enableReSTIRGIVirtualSample |-> FALSE,
   enableReSTIRGIReflectionReprojection |-> FALSE,
   enableReSTIRGIDiscardEnlargedPixels |-> TRUE,
   restirGIReflectionMinParallax |-> 0,
   temporalHistoryLength |-> 1,
   enableReSTIRGITemporalJacobian |-> FALSE,
   enableReSTIRGITemporalBiasCorrection |-> TRUE,
   uniformRandomNumber |-> 0,
   enableReSTIRGIPermutationSampling |-> FALSE,
   permutationSamplingSize |-> 1,
   reSTIRGIBiasCorrectionMode |-> BIAS_CORRECTION_OFF,
   enableReSTIRGITemporalReuse |-> TRUE,
   debugView |-> DEBUG_VIEW_DISABLED]

\* a valid surface whose sample is a plain hit, reprojected onto pixel <<0, 0>>
BaseInput ==
  [InvalidSurfaceInput EXCEPT !.surfaceValid = TRUE,
                              !.primarySelectedIntegrationSurface = TRUE,
                              !.radiance = 5, !.directionNonZero = TRUE]

EmptyStore(grid) == [p \in Pages |-> [q \in GridPixels(grid) |-> EmptyReservoir]]

\* the pass as a whole: two pixels, several frames, units interleaved
PassGrid == <<3, 1>>

PassDomain ==
  [grid |-> PassGrid, frames |-> MaxFrames, concurrent |-> TRUE,
   focus |-> GridPixels(PassGrid),
   cbs |-> {[BaseCb EXCEPT !.resolution = res, !.enableReSTIRGITemporalReuse = reuse,
                           !.temporalHistoryLength = cap,
                           !.debugView = DEBUG_VIEW_RESTIR_GI_INITIAL_SAMPLE] :
              res \in {<<2, 1>>}, reuse \in BOOLEAN, cap \in {1, MaxHistoryLength}},
   inputs |-> {InvalidSurfaceInput} \cup
              {[BaseInput EXCEPT !.radiance = 5 + 35 * q[1], !.prevPixelCenter = PixelCenter(q),
                                 !.similarTo = GridPixels(PassGrid)] :
                 q \in {<<0, 0>>, <<1, 0>>}},
   stores |-> {EmptyStore(PassGrid)}]

InitFor(D) ==
  /\ frameIdx = 0
  /\ cb = BaseCb
  /\ inp = [t \in GridPixels(D.grid) |-> InvalidSurfaceInput]
  /\ store \in D.stores
  /\ debugView = [t \in GridPixels(D.grid) |-> <<"clear", 0, 1>>]
  /\ pc = [t \in GridPixels(D.grid) |-> "done"]
  /\ loc = [t \in GridPixels(D.grid) |-> IdleLocals]
  /\ writes = [t \in GridPixels(D.grid) |-> {}]
  /\ reads = [t \in GridPixels(D.grid) |-> {}]
  /\ store0 = store
  /\ probe = NoProbe

Init == InitFor(PassDomain)

Next ==
  \/ Dispatch(PassDomain)
  \/ \E t \in Threads : Enter(t)
  \/ \E t \in Threads : StoreInitialSample(t)
  \/ \E t \in Threads : Reproject(t)
  \/ \E t \in Threads : TemporalResampling(t)
  \/ \E t \in Threads : Revalidate(t)
  \/ \E t \in Threads : StoreOutput(t)
  \/ \E t \in Threads : DebugView(t)

Spec == Init /\ [][Next]_vars

---------------------------------------------------------------------------
(* Properties of the pass as a whole (Spec) *)

InFlight == frameIdx > 0

OutsideResolution(t) == ~InResolution(t, cb.resolution)

InitPage == ReSTIRGI_GetInitSamplePage

InputPage == ReSTIRGI_GetTemporalInputPage(frameIdx)

OutputPage == ReSTIRGI_GetTemporalOutputPage(frameIdx)

\* C2: a unit whose pixel is outside the resolution, or whose GBuffer surface is
\* invalid, takes one step only, the one that ends it, and that step changes neither
\* the store (initial-sample page, output page) nor the debug view.
C2_EarlyExitWritesNothing ==
  [][\A t \in Threads :
       (frameIdx' = frameIdx /\ pc'[t] # pc[t]
        /\ (OutsideResolution(t) \/ ~inp[t].surfaceValid))
       => (pc[t] = "start" /\ pc'[t] = "done" /\ store' = store
           /\ debugView' = debugView /\ writes'[t] = {})]_vars

\* an out-of-resolution unit and an invalid-surface unit have ended while another
\* unit of the frame has written both of its slots
C2_Witness ==
  /\ InFlight
  /\ \E t \in Threads : OutsideResolution(t) /\ pc[t] = "done"
  /\ \E t \in Threads : ~OutsideResolution(t) /\ ~inp[t].surfaceValid /\ pc[t] = "done"
                        /\ store[InitPage][t] = store0[InitPage][t]
  /\ \E t \in Threads : Cardinality(writes[t]) = 2 /\ debugView[t][1] = "radiance"

\* C4: within a frame every slot a unit wrote is its own pixel's slot in a page
\* written this frame (the initial-sample page or the temporal output page), every
\* slot a unit read is in the previous frame's page, which no unit writes; so no
\* slot is written by two units, no slot read is written, and the store differs
\* from the store at dispatch only in slots recorded as written.
C4_DisjointWritesReadOnlyInput ==
  InFlight =>
    /\ \A t \in Threads : \A w \in writes[t] :
         w[2] = t /\ w[1] \in {InitPage, OutputPage} /\ w[1] # InputPage
    /\ \A t \in Threads : \A r \in reads[t] : r[1] = InputPage
    /\ \A t, u \in Threads : t # u => writes[t] \cap writes[u] = {}
    /\ \A t, u \in Threads : reads[t] \cap writes[u] = {}
    /\ \A p \in Pages : \A q \in DOMAIN store[p] :
         store[p][q] # store0[p][q] => \E t \in Threads : <<p, q>> \in writes[t]
    /\ store[InputPage] = store0[InputPage]

\* two units have written both of their slots and one of them read the previous
\* page's slot of the other one's pixel
C4_Witness ==
  /\ InFlight
  /\ \E t, u \in Threads :
       /\ t # u
       /\ Cardinality(writes[t]) = 2 /\ Cardinality(writes[u]) = 2
       /\ <<InputPage, u>> \in reads[t]
       /\ store0[InputPage][u].M > 0

\* what one unit writes, computed from the frame's inputs and the store at dispatch
ExpectedInitialSample(t) == CandidateBuilder(cb, inp[t])

ExpectedOutput(t) ==
  LET initialSample == ExpectedInitialSample(t)
      r == Reprojector(t, cb, inp[t], frameIdx)
      tparams == TemporalResamplingParameters(cb, r, frameIdx)
      res == ReSTIRGI_TemporalResampling(initialSample, t, cb, inp[t], r.rng, tparams,
                                         store0[tparams.sourceBufferIndex])
      revalidated == VisibilityRevalidation(cb, inp[t], res.reservoir,
                                            res.isGBufferSimilar, res.isInitialSample)
  IN  OutputReservoir(cb, revalidated, initialSample)

ExpectedStore ==
  [p \in Pages |->
     [q \in DOMAIN store0[p] |->
        IF EarlyExit(q, cb, inp[q]) THEN store0[p][q]
        ELSE IF p = InitPage THEN ExpectedInitialSample(q)
        ELSE IF p = OutputPage THEN ExpectedOutput(q)
        ELSE store0[p][q]]]

\* C5: once every unit of the frame has finished, the store is the one function of the
\* frame index, the constant block, the input buffers and the store at dispatch,
\* whatever order the units' steps were taken in.
C5_StoreIndependentOfOrder ==
  (InFlight /\ AllDone) => store = ExpectedStore

\* a frame has finished in which two units merged a previous reservoir, one keeping
\* the previous sample and the other its candidate, as their random numbers decided
C5_Witness ==
  /\ InFlight /\ AllDone
  /\ \E t, u \in Threads :
       /\ t # u
       /\ store[OutputPage][t].M = 2 /\ store[OutputPage][u].M = 2
       /\ store[OutputPage][t].radiance # store[InitPage][t].radiance
       /\ store[OutputPage][u].radiance = store[InitPage][u].radiance
       /\ store0[InputPage][PixelOf(inp[u].prevPixelCenter)].radiance
            # store[InitPage][u].radiance

---------------------------------------------------------------------------
(* The Candidate Builder on one pixel (SpecCandidate) *)

CandidateGrid == <<2, 1>>

CandidateDomain ==
  [grid |-> CandidateGrid, frames |-> 1, concurrent |-> FALSE,
   focus |-> GridPixels(CandidateGrid),
   cbs |-> {[BaseCb EXCEPT !.resolution = <<1, 1>>,
                           !.rayPortalHitInfos = [i \in 0 .. 1 |-> [active |-> i \in on]],
                           !.enableReSTIRGIVirtualSample = virtual,
                           !.enableReSTIRGITemporalReuse = reuse,
                           !.debugView = DEBUG_VIEW_NAN] :
              on \in SUBSET (0 .. 1), virtual \in BOOLEAN, reuse \in BOOLEAN},
   inputs |-> {[BaseInput EXCEPT !.primarySelectedIntegrationSurface = primary,
                                 !.radiance = rad, !.pathLengthExceeds = exceeds,
                                 !.portalID = portal, !.roughnessAboveDelta = rough,
                                 !.directionNonZero = nonZero] :
                 primary \in BOOLEAN, rad \in {-1, 5, 40}, exceeds \in BOOLEAN,
                 portal \in {RESTIR_GI_INVALID_INDIRECT_LIGHT_PORTAL_ID, 0, 1},
                 rough \in BOOLEAN, nonZero \in BOOLEAN},
   stores |-> {EmptyStore(CandidateGrid)}]

InitCandidate == InitFor(CandidateDomain)

NextCandidate ==
  \/ Dispatch(CandidateDomain)
  \/ \E t \in Threads : Enter(t)
  \/ \E t \in Threads : StoreInitialSample(t)
  \/ \E t \in Threads : Reproject(t)
  \/ \E t \in Threads : TemporalResampling(t)
  \/ \E t \in Threads : Revalidate(t)
  \/ \E t \in Threads : StoreOutput(t)
  \/ \E t \in Threads : DebugView(t)

SpecCandidate == InitCandidate /\ [][NextCandidate]_vars

\* the unit has built its candidate and still holds it
HoldsCandidate(t) == pc[t] \notin {"start", "done"}

PortalTagged(t) == inp[t].portalID # RESTIR_GI_INVALID_INDIRECT_LIGHT_PORTAL_ID

OpposingActive(t) == cb.rayPortalHitInfos[getOpposingRayPortalIndex(inp[t].portalID)].active

\* the candidate of the same inputs with the portal stage left out
NonPortalCandidate(t) ==
  VirtualSample(LoadHitGeometry(LoadRadiance(cb, inp[t]), inp[t]), cb, inp[t])

\* C9: when the hit carries a valid portal ID and the opposing portal is not active,
\* the candidate is the one a non-portal hit of the same geometry gives (only the
\* portal ID is kept): nothing is teleported, and its position and normal are the
\* ones loaded from the hit-geometry buffer unless the later virtual-sample stage
\* moves it.  A candidate is teleported only when the hit is portal-tagged and the
\* opposing portal is active, and then it is.
C9_InactivePortalLeavesHit ==
  \A t \in Threads : HoldsCandidate(t) =>
    LET s == loc[t].initialSample IN
    /\ (PortalTagged(t) /\ ~OpposingActive(t)) =>
         /\ s = NonPortalCandidate(t)
         /\ s.position.portal = NoPortal /\ s.normal.portal = NoPortal
         /\ s.virtualFraction = 0 =>
              s.position = Vec(inp[t].hitPosition) /\ s.normal = Vec(inp[t].hitNormal)
         /\ pc[t] # "store_initial" => store[InitPage][t] = s
    /\ s.position.portal # NoPortal <=> (PortalTagged(t) /\ OpposingActive(t))
    /\ s.position.portal # NoPortal =>
         s.position.portal = getOpposingRayPortalIndex(inp[t].portalID)

\* a candidate tagged with portal 0 was stored untouched while portal 1 is inactive
\* and portal 0 itself is active
C9_Witness ==
  \E t \in Threads :
    /\ pc[t] = "reproject"
    /\ inp[t].portalID = 0
    /\ ~cb.rayPortalHitInfos[1].active /\ cb.rayPortalHitInfos[0].active
    /\ store[InitPage][t].position = Vec(inp[t].hitPosition)
    /\ store[InitPage][t].portalID = 0

---------------------------------------------------------------------------
(* The Reprojector on one pixel of a row of three (SpecReproject) *)

RowGrid == <<4, 1>>

RowResolution == <<3, 1>>

\* the pixel centres reprojection may land on: the row's pixels and one pixel
\* outside of the resolution on either side
RowCenters == {<<2 * x + 1, 1>> : x \in -1 .. 3}

\* a reservoir a previous frame left behind
PreviousReservoir(M, occluded) ==
  [position |-> Vec("h1"), normal |-> Vec("n1"), radiance |-> 7, M |-> M,
   avgWeight |-> <<1, 1>>, occluded |-> occluded, virtualFraction |-> 0,
   portalID |-> RESTIR_GI_INVALID_INDIRECT_LIGHT_PORTAL_ID]

\* a store whose first-frame source page holds the given reservoirs
StoreWithPrevious(grid, previous) ==
  [p \in Pages |->
     [q \in GridPixels(grid) |->
        IF p = ReSTIRGI_GetTemporalInputPage(1) /\ q \in DOMAIN previous
        THEN previous[q] ELSE EmptyReservoir]]

ReprojectDomain ==
  [grid |-> RowGrid, frames |-> 1, concurrent |-> FALSE,
   focus |-> GridPixels(RowGrid),
   cbs |-> {[BaseCb EXCEPT !.resolution = RowResolution,
                           !.enableReSTIRGIReflectionReprojection = reflection,
                           !.restirGIReflectionMinParallax = parallax,
                           !.enableReSTIRGIDiscardEnlargedPixels = discard,
                           !.temporalHistoryLength = 4,
                           !.debugView = DEBUG_VIEW_RESTIR_GI_TEMPORAL_REUSE] :
              reflection \in BOOLEAN, parallax \in {0, 5}, discard \in BOOLEAN},
   inputs |-> {[BaseInput EXCEPT !.prevPixelCenter = diffuse,
                                 !.reflectionWeight = weight,
                                 !.prevReflectionCenter = reflected,
                                 !.similarTo = GridPixels(RowResolution)] :
                 diffuse \in RowCenters, weight \in {0, 1, WeightDen \div 2, WeightDen},
                 reflected \in RowCenters},
   stores |-> {StoreWithPrevious(RowGrid,
                 [q \in GridPixels(RowResolution) |-> PreviousReservoir(2, FALSE)])}]

InitReproject == InitFor(ReprojectDomain)

NextReproject ==
  \/ Dispatch(ReprojectDomain)
  \/ \E t \in Threads : Enter(t)
  \/ \E t \in Threads : StoreInitialSample(t)
  \/ \E t \in Threads : Reproject(t)
  \/ \E t \in Threads : TemporalResampling(t)
  \/ \E t \in Threads : Revalidate(t)
  \/ \E t \in Threads : StoreOutput(t)
  \/ \E t \in Threads : DebugView(t)

SpecReproject == InitReproject /\ [][NextReproject]_vars

\* the unit has reprojected and not resampled yet
Reprojected(t) == pc[t] = "resample"

\* line 153, from the inputs
ReflectionUsed(t) ==
  /\ cb.enableReSTIRGIReflectionReprojection
  /\ inp[t].reflectionWeight * 20 > WeightDen
  /\ LengthSq(VSub(inp[t].prevPixelCenter, PixelCenter(t))) > 4

\* the parallax between the two reprojections is below cb.restirGIReflectionMinParallax
BelowMinParallax(t) ==
  LengthSq(VSub(inp[t].prevReflectionCenter, inp[t].prevPixelCenter))
    < cb.restirGIReflectionMinParallax * cb.restirGIReflectionMinParallax

\* C10 as stated: the backup is -1 when reflection reprojection is unused, otherwise it
\* is the diffuse coordinate, differs from the primary coordinate, and the primary
\* coordinate is the reflection-based target.
C10_BackupDiffersFromPrimary ==
  \A t \in Threads : Reprojected(t) =>
    /\ ~ReflectionUsed(t) => loc[t].prevBackupPixelCenter = MinusOne
    /\ loc[t].prevBackupPixelCenter # MinusOne =>
         /\ loc[t].prevBackupPixelCenter = inp[t].prevPixelCenter
         /\ loc[t].prevBackupPixelCenter # loc[t].prevPixelCenter
         /\ loc[t].prevPixelCenter = inp[t].prevReflectionCenter

\* C10 amended: the backup is -1 exactly when the reflection branch of line 153 is not
\* taken, and otherwise is the diffuse coordinate.  In the branch the primary is the
\* interpolated coordinate when the parallax is below the threshold; otherwise either
\* the reflection target (relaxed depth threshold, enlarged pixels kept) or, when the
\* random selection did not pick it, the diffuse coordinate, the backup's equal.
C10_BackupIsDiffuseOrUnused ==
  \A t \in Threads : Reprojected(t) =>
    /\ loc[t].prevBackupPixelCenter = MinusOne <=> ~ReflectionUsed(t)
    /\ ~ReflectionUsed(t) => loc[t].prevPixelCenter = inp[t].prevPixelCenter
    /\ ReflectionUsed(t) =>
         /\ loc[t].prevBackupPixelCenter = inp[t].prevPixelCenter
         /\ (~BelowMinParallax(t)) =>
              \/ /\ loc[t].prevPixelCenter = inp[t].prevReflectionCenter
                 /\ loc[t].depthThreshold = "relaxed"
                 /\ ~loc[t].discardEnlargedPixels
              \/ /\ loc[t].prevPixelCenter = loc[t].prevBackupPixelCenter
                 /\ loc[t].depthThreshold = "strict"
         /\ BelowMinParallax(t) =>
              /\ loc[t].depthThreshold = "strict"
              /\ \A i \in 1 .. 2 :
                   /\ loc[t].prevPixelCenter[i] >=
                        Min(inp[t].prevPixelCenter[i], inp[t].prevReflectionCenter[i])
                   /\ loc[t].prevPixelCenter[i] <=
                        Max(inp[t].prevPixelCenter[i], inp[t].prevReflectionCenter[i])

\* the reflection branch was taken with a parallax above the threshold and the random
\* selection kept the diffuse coordinate: the backup is set and equals the primary,
\* although a different reflection target lay inside the resolution
C10_Witness ==
  \E t \in Threads :
    /\ Reprojected(t) /\ ReflectionUsed(t) /\ ~BelowMinParallax(t)
    /\ loc[t].prevBackupPixelCenter # MinusOne
    /\ loc[t].prevBackupPixelCenter = loc[t].prevPixelCenter
    /\ inp[t].prevReflectionCenter # inp[t].prevPixelCenter
    /\ InResolution(PixelOf(inp[t].prevReflectionCenter), cb.resolution)

---------------------------------------------------------------------------
(* Resampling, revalidation and output on one pixel of a row (SpecResample) *)

ResampleDomain ==
  [grid |-> RowResolution, frames |-> 1, concurrent |-> FALSE,
   focus |-> {<<0, 0>>, <<2, 0>>},
   cbs |-> {[BaseCb EXCEPT !.resolution = RowResolution,
                           !.enableReSTIRGIReflectionReprojection = TRUE,
                           !.enableReSTIRGITemporalReuse = reuse,
                           !.reSTIRGIBiasCorrectionMode = mode,
                           !.enableReSTIRGIPermutationSampling = permutation,
                           !.temporalHistoryLength = 4,
                           !.debugView = DEBUG_VIEW_RESTIR_GI_TEMPORAL_REUSE] :
              reuse \in BOOLEAN, permutation \in BOOLEAN,
              mode \in {BIAS_CORRECTION_OFF, RTXDI_BIAS_CORRECTION_PAIRWISE_RAY_TRACED}},
   inputs |-> {[BaseInput EXCEPT !.prevPixelCenter = diffuse,
                                 !.reflectionWeight = weight,
                                 !.prevReflectionCenter = reflected,
                                 !.similarTo = similar,
                                 !.similarUnderRelaxedDepth = similar \cup relaxed,
                                 !.isVisible = visible] :
                 diffuse \in RowCenters, weight \in {0, WeightDen},
                 reflected \in {<<1, 1>>, <<3, 1>>},
                 similar \in {{}, {<<2, 0>>}, GridPixels(RowResolution)},
                 relaxed \in {{}, GridPixels(RowResolution)},
                 visible \in BOOLEAN},
   stores |-> {StoreWithPrevious(RowResolution, previous) :
                 previous \in
                   {[q \in GridPixels(RowResolution) |-> EmptyReservoir],
                    [q \in GridPixels(RowResolution) |-> PreviousReservoir(2, FALSE)],
                    [q \in GridPixels(RowResolution) |->
                       IF q = <<0, 0>> THEN EmptyReservoir
                       ELSE PreviousReservoir(3, q = <<1, 0>>)],
                    [q \in GridPixels(RowResolution) |->
                       IF q = <<2, 0>> THEN EmptyReservoir
                       ELSE PreviousReservoir(1, q = <<0, 0>>)]}}]

InitResample == InitFor(ResampleDomain)

NextResample ==
  \/ Dispatch(ResampleDomain)
  \/ \E t \in Threads : Enter(t)
  \/ \E t \in Threads : StoreInitialSample(t)
  \/ \E t \in Threads : Reproject(t)
  \/ \E t \in Threads : TemporalResampling(t)
  \/ \E t \in Threads : Revalidate(t)
  \/ \E t \in Threads : StoreOutput(t)
  \/ \E t \in Threads : DebugView(t)

SpecResample == InitResample /\ [][NextResample]_vars

\* the unit holds the Resampler's result
Resampled(t) == pc[t] \in {"revalidate", "store_output", "debug"}

\* a reprojected position the Resampler cannot merge from: outside the resolution, or
\* the previous page's reservoir there is invalid (M = 0), or the depth / normal
\* similarity test fails
Rejected(t, position) ==
  LET q == PixelOf(position)
  IN  \/ ~InResolution(q, cb.resolution)
      \/ store0[InputPage][q].M = 0
      \/ ~IsGBufferSimilar(inp[t], q, loc[t].depthThreshold)

FellBackToCandidate(t) ==
  /\ loc[t].resampled = loc[t].initialSample
  /\ loc[t].isInitialSample

RevalidationCondition(t) ==
  /\ cb.reSTIRGIBiasCorrectionMode = RTXDI_BIAS_CORRECTION_PAIRWISE_RAY_TRACED
  /\ loc[t].isGBufferSimilar
  /\ ~loc[t].isInitialSample

\* C3: after the revalidation stage the reservoir is the one the Resampler returned,
\* occlusion flag included, unless the mode is pairwise-raytraced and the merge
\* reported isGBufferSimilar and not isInitialSample; only then is the flag cleared
\* and set again from the occlusion trace, nothing else being changed.
C3_RevalidationOnlyWhenRayTraced ==
  \A t \in Threads : pc[t] \in {"store_output", "debug"} =>
    /\ ~RevalidationCondition(t) => loc[t].resultReservoir = loc[t].resampled
    /\ RevalidationCondition(t) =>
         loc[t].resultReservoir = [loc[t].resampled EXCEPT !.occluded = ~inp[t].isVisible]

\* pairwise-raytraced mode, a similar surface and an occluded trace, yet the merge kept
\* the initial sample: the stage was passed and the flag is as the Resampler left it
C3_Witness ==
  \E t \in Threads :
    /\ pc[t] = "store_output"
    /\ cb.reSTIRGIBiasCorrectionMode = RTXDI_BIAS_CORRECTION_PAIRWISE_RAY_TRACED
    /\ loc[t].isGBufferSimilar /\ loc[t].isInitialSample
    /\ ~inp[t].isVisible
    /\ ~loc[t].resultReservoir.occluded
    /\ loc[t].resultReservoir.M > 1

\* C1: with enableReSTIRGITemporalReuse false, the reservoir a unit wrote to the
\* temporal output page equals its candidate, the one built from the pixel's inputs
\* and stored to the initial-sample page, in every field.
C1_DisabledReuseWritesCandidate ==
  (InFlight /\ ~cb.enableReSTIRGITemporalReuse) =>
    \A t \in Threads : <<OutputPage, t>> \in writes[t] =>
      /\ store[OutputPage][t] = CandidateBuilder(cb, inp[t])
      /\ store[OutputPage][t] = store[InitPage][t]
      /\ pc[t] = "debug" => store[OutputPage][t] = loc[t].initialSample

\* reuse is disabled and the output is written, although the merge produced another
\* reservoir and revalidation flagged it occluded
C1_Witness ==
  \E t \in Threads :
    /\ InFlight /\ ~cb.enableReSTIRGITemporalReuse
    /\ pc[t] = "debug"
    /\ <<OutputPage, t>> \in writes[t]
    /\ loc[t].resultReservoir.M > 1
    /\ loc[t].resultReservoir.occluded
    /\ loc[t].resultReservoir.radiance # loc[t].initialSample.radiance
    /\ store[OutputPage][t].M = 1

---------------------------------------------------------------------------
(* The Resampler applied to stand-alone reservoirs (SpecResampler) *)

ProbeGrid == <<1, 1>>

\* a candidate as the Candidate Builder fills it, with the given M and avgWeight
ProbeCandidate(M, weight) ==
  [CandidateBuilder(BaseCb, BaseInput) EXCEPT !.M = M, !.avgWeight = <<weight, 1>>]

ProbePrevious(M, weight) ==
  [PreviousReservoir(M, FALSE) EXCEPT !.avgWeight = <<weight, 1>>]

\* the Resampler is called on pixel <<0, 0>>, reprojected onto itself and similar to
\* the previous surface there, with the parameters main builds from the constants
Call ==
  /\ ~probe.done
  /\ \E Mc \in 1 .. 2, wc \in 1 .. ProbeMaxWeight,
        Mp \in 1 .. ProbeMaxM, wp \in 1 .. ProbeMaxWeight,
        cap \in {ProbeMaxM \div 2, ProbeMaxM, ProbeMaxM + 3},
        correction \in BOOLEAN, jacobian \in BOOLEAN, u \in 0 .. RandomRes - 1 :
       LET c == [BaseCb EXCEPT !.resolution = ProbeGrid,
                               !.temporalHistoryLength = cap,
                               !.enableReSTIRGITemporalBiasCorrection = correction,
                               !.enableReSTIRGITemporalJacobian = jacobian,
                               !.reSTIRGIBiasCorrectionMode = BIAS_CORRECTION_BASIC]
           in == [BaseInput EXCEPT !.prevPixelCenter = PixelCenter(<<0, 0>>),
                                   !.similarTo = GridPixels(ProbeGrid),
                                   !.jacobian = <<3, 2>>,
                                   !.pairwiseFactor = <<1, 2>>]
           r == [IdleLocals EXCEPT !.prevPixelCenter = in.prevPixelCenter]
           tparams == TemporalResamplingParameters(c, r, 1)
           initialSample == ProbeCandidate(Mc, wc)
           previous == ProbePrevious(Mp, wp)
           page == [q \in GridPixels(ProbeGrid) |-> previous]
       IN  probe' = [done |-> TRUE, initialSample |-> initialSample,
                     previous |-> previous, tparams |-> tparams,
                     temporalHistoryLength |-> c.temporalHistoryLength,
                     mode |-> BiasCorrectionMode(c, tparams), u |-> u,
                     result |-> ReSTIRGI_TemporalResampling(initialSample, <<0, 0>>, c, in,
                                                            u, tparams, page)]
  /\ UNCHANGED <<frameIdx, cb, inp, store, debugView, pc, loc, writes, reads, store0>>

Return ==
  /\ probe.done
  /\ probe' = NoProbe
  /\ UNCHANGED <<frameIdx, cb, inp, store, debugView, pc, loc, writes, reads, store0>>

InitResampler ==
  InitFor([grid |-> ProbeGrid, stores |-> {EmptyStore(ProbeGrid)}])

NextResampler ==
  \/ Call
  \/ Return

SpecResampler == InitResampler /\ [][NextResampler]_vars

\* the merged reservoir carries the previous reservoir's sample
RetainsPrevious ==
  /\ probe.result.reservoir.position = probe.previous.position
  /\ probe.result.reservoir.radiance = probe.previous.radiance
  /\ ~probe.result.isInitialSample

RetainsCandidate ==
  /\ probe.result.reservoir.position = probe.initialSample.position
  /\ probe.result.reservoir.radiance = probe.initialSample.radiance
  /\ probe.result.isInitialSample

\* weights as stored: bias correction off and no Jacobian correction
PlainMerge ==
  /\ probe.done
  /\ probe.mode = BIAS_CORRECTION_OFF
  /\ ~probe.tparams.enableJacobian

\* candidate M=1, avgWeight=2.0; previous M=8, avgWeight=1.0; bias correction off and
\* a history cap of at least 9
MergeScenario ==
  /\ PlainMerge
  /\ probe.initialSample.M = 1 /\ probe.initialSample.avgWeight = <<2, 1>>
  /\ probe.previous.M = 8 /\ probe.previous.avgWeight = <<1, 1>>
  /\ probe.temporalHistoryLength >= 9

\* the sample is drawn with the uniform random number u / RandomRes: the previous
\* sample is retained with probability n / d when it is retained exactly for u / RandomRes < n / d
RetainedBelow(n, d) == RetainsPrevious <=> probe.u * d < n * RandomRes

\* in general: M is the clamped sum, and with the weights as stored each sample is
\* chosen with probability proportional to avgWeight x M
MergeLaw ==
  probe.done =>
    /\ probe.result.reservoir.M =
         Min(probe.initialSample.M + probe.previous.M, probe.temporalHistoryLength)
    /\ RetainsPrevious \/ RetainsCandidate
    /\ PlainMerge =>
         RetainedBelow(probe.previous.avgWeight[1] * probe.previous.M,
                       probe.previous.avgWeight[1] * probe.previous.M
                         + probe.initialSample.avgWeight[1] * probe.initialSample.M)

====
